---- MODULE Spec2Model ----
(***************************************************************************)
(* A model of neuro_kl/kl_tools.py (Python 2, numpy/scipy).                *)
(*                                                                         *)
(* The module is a library of pure functions.  A behaviour is one call:    *)
(* Init draws the arguments of the call (variable `call`), the action of   *)
(* the called function computes what the function returns or raises        *)
(* (variable `ret`).                                                       *)
(*                                                                         *)
(* Numbers.  Floating point values are modelled exactly as fractions:      *)
(*   - an element of a spike matrix is an integer v standing for v/Unit;   *)
(*   - a probability handed to kl/entropy is a numerator over              *)
(*     Den = 2^MaxExp that is 0 or a power of two, so that log2 is exact   *)
(*     (as it is in IEEE arithmetic for these values);                     *)
(*   - a vector of counts carries a denominator `den` next to its          *)
(*     numerators `num`; den = 0 stands for the NaN of a division 0/0.     *)
(* The names array, zeros, log and outer, which the file uses without      *)
(* importing them, are read as the numpy functions of these names.         *)
(* A raised exception is a value of `ret` whose status is the exception's  *)
(* class name.                                                             *)
(***************************************************************************)
EXTENDS Integers, Sequences, FiniteSets, TLC

VARIABLES call, ret

vars == <<call, ret>>

(* ------------------------------ bounds -------------------------------- *)

\* channels of a spike matrix / bits of a state
MaxChannels == 2
\* rows of a binary spike matrix, length of a state sequence, npoints
MaxPoints == 4
\* rows of a spike matrix with arbitrary (non-binary) elements
MaxRows == 1
\* length of a state sequence handed to states2distr directly
MaxLen == 3
\* probabilities are 0 or 2^-k, k in 0..MaxExp
MaxExp == 2
\* bins of a distribution handed to entropy
MaxBins == 4
\* bins of the two distributions handed to kl
MaxKlBins == 2
\* lag dt of a transition matrix
MaxLag == 2
\* a spike matrix element v stands for v/Unit
Unit == 2

(* ------------------------------ helpers ------------------------------- *)

RECURSIVE Pow(_, _)
Pow(b, e) == IF e = 0 THEN 1 ELSE b * Pow(b, e - 1)

RECURSIVE SumSeq(_)
SumSeq(s) == IF s = <<>> THEN 0 ELSE Head(s) + SumSeq(Tail(s))

MinOf(S) == CHOOSE x \in S : \A y \in S : x <= y

SeqsUpTo(S, n) == UNION {[1..k -> S] : k \in 1..n}

\* a[lo:hi] of Python, 0 <= lo: the bounds are clipped to the length
Slice(a, lo, hi) ==
    LET h == IF hi > Len(a) THEN Len(a) ELSE hi
    IN  IF lo >= h THEN <<>> ELSE [i \in 1..(h - lo) |-> a[lo + i]]

\* x < 1e-4 for the fraction x = n/d, d > 0
LessThanTol(n, d) == n * 10000 < d

(* ========================= DirectEstimator ============================ *)

Den == Pow(2, MaxExp)

ProbVals == {0} \cup {Pow(2, k) : k \in 0..MaxExp}

\* log2 of the probability p/Den, p a power of two
log2(p) == (CHOOSE k \in 0..MaxExp : Pow(2, k) = p) - MaxExp

\* (p==0.).sum()
NumZeros(p) == Cardinality({x \in DOMAIN p : p[x] = 0})

ZeroBins == [status |-> "Exception", msg |-> "Zero bins found"]

\* a faulty variant: a zero bin contributes 0 instead of being rejected
kl_skip(p, q) ==
    [status |-> "ok",
     num |-> SumSeq([x \in DOMAIN p |->
                        IF p[x] = 0 \/ q[x] = 0 THEN 0
                        ELSE p[x] * (log2(p[x]) - log2(q[x]))]),
     den |-> Den]

kl(p, q) ==
    IF NumZeros(p) + NumZeros(q) > 0
    THEN ZeroBins
    ELSE [status |-> "ok",
          num |-> SumSeq([x \in DOMAIN p |-> p[x] * (log2(p[x]) - log2(q[x]))]),
          den |-> Den]

\* a faulty variant: the sign of the definition of entropy, -sum p log2 p
entropy_minus(p) ==
    IF NumZeros(p) > 0
    THEN ZeroBins
    ELSE [status |-> "ok",
          num |-> 0 - SumSeq([x \in DOMAIN p |-> p[x] * log2(p[x])]),
          den |-> Den]

entropy(p) ==
    IF NumZeros(p) > 0
    THEN ZeroBins
    ELSE [status |-> "ok",
          num |-> SumSeq([x \in DOMAIN p |-> p[x] * log2(p[x])]),
          den |-> Den]

(* =========================== StateEncoder ============================= *)

SpikeVals == -1..(Unit + 1)

BinaryVals == {0, Unit}

Matrices(vals, maxrows) ==
    UNION {[1..t -> [1..c -> vals]] : t \in 1..maxrows, c \in 1..MaxChannels}

\* [2**i for i in range(nchannels-1,-1,-1)]
pow2(nchannels) == [k \in 1..nchannels |-> Pow(2, nchannels - k)]

\* a faulty variant: least significant bit first, [2**i for i in range(nchannels)]
spikes2states_lsb(spikes) ==
    IF ~ \A t \in DOMAIN spikes : \A k \in DOMAIN spikes[t] :
             spikes[t][k] >= 0 /\ spikes[t][k] <= Unit
    THEN [status |-> "ValueError", msg |-> "Input array must be binary"]
    ELSE [status |-> "ok",
          value |-> [t \in DOMAIN spikes |->
                        SumSeq([k \in DOMAIN spikes[t] |->
                                   spikes[t][k] * Pow(2, k - 1)])],
          den |-> Unit]

\* the states are value[t]/den
spikes2states(spikes) ==
    IF ~ \A t \in DOMAIN spikes : \A k \in DOMAIN spikes[t] :
             spikes[t][k] >= 0 /\ spikes[t][k] <= Unit
    THEN [status |-> "ValueError", msg |-> "Input array must be binary"]
    ELSE LET nchannels == Len(spikes[1])
         IN  [status |-> "ok",
              value |-> [t \in DOMAIN spikes |->
                            SumSeq([k \in 1..nchannels |->
                                       spikes[t][k] * pow2(nchannels)[k]])],
              den |-> Unit]

(* ======================== DistributionBuilder ========================= *)

\* numpy's bins over the edges 0..nb: bin i is [i-1, i), the last one [nb-1, nb]
InBin(v, i, nb) == v = i - 1 \/ (i = nb /\ v = nb)

histogram(a, nb) ==
    [i \in 1..nb |-> Cardinality({t \in DOMAIN a : InBin(a[t], i, nb)})]

\* a faulty variant: bins = arange(2**nchannels), one bin short
states2distr_short(states, nchannels, normed) ==
    LET counts == histogram(states, Pow(2, nchannels) - 1)
    IN  [num |-> counts, den |-> IF normed THEN SumSeq(counts) ELSE 1]

\* the distribution is num[s]/den; normed divides by the number of values binned
states2distr(states, nchannels, normed) ==
    LET counts == histogram(states, Pow(2, nchannels))
    IN  [num |-> counts, den |-> IF normed THEN SumSeq(counts) ELSE 1]

\* sm of _check_dict_consistency: the element-wise sum of the d blocks
BlockSum(blocks) ==
    [s \in DOMAIN blocks[1] |->
        SumSeq([i \in DOMAIN blocks |-> blocks[i][s]])]

\* the two assertions for one d; the blocks are num/den
CheckOne(distr, den, npoints, d) ==
    LET sm == BlockSum(distr[d])
    IN  IF ~ LessThanTol(SumSeq(sm) - npoints * den, den)
        THEN "AssertionError"
        ELSE IF 1 \notin DOMAIN distr
        THEN "KeyError"
        ELSE IF ~ \A s \in DOMAIN sm :
                     LessThanTol((sm[s] \div den) * den - distr[1][1][s], den)
        THEN "AssertionError"
        ELSE "ok"

check_dict_consistency(distr, den, npoints) ==
    IF 2 \in DOMAIN distr /\ CheckOne(distr, den, npoints, 2) # "ok"
    THEN CheckOne(distr, den, npoints, 2)
    ELSE IF 4 \in DOMAIN distr
    THEN CheckOne(distr, den, npoints, 4)
    ELSE "ok"

\* scipy.random.permutation + take: the orders the sequence can be put in
Shuffles(all_y) ==
    {[i \in DOMAIN all_y |-> all_y[p[i]]] : p \in Permutations(DOMAIN all_y)}

\* all_y is the sequence after the optional shuffle
states2dict(all_y, nchannels, npoints, fractions) ==
    LET distr == [d \in fractions |->
                    [i \in 1..d |->
                        states2distr(Slice(all_y, (i - 1) * (npoints \div d),
                                           i * (npoints \div d)),
                                     nchannels, FALSE).num]]
    IN  [status |-> check_dict_consistency(distr, 1, npoints),
         distr |-> distr, den |-> 1]

(* ====================== IndependentModelBuilder ======================= *)

\* bit k (1-based, channel order) of binary_repr(s, width=nchannels)
ReprBit(s, k, nchannels) == (s \div Pow(2, nchannels - k)) % 2

RECURSIVE ProdSeq(_)
ProdSeq(s) == IF s = <<>> THEN 1 ELSE Head(s) * ProdSeq(Tail(s))

\* indep_distr[s] = IndepNum(spikes)[s+1] / IndepDen(spikes)
IndepNum(spikes) ==
    LET T == Len(spikes)
        nchannels == Len(spikes[1])
        colsum == [k \in 1..nchannels |->
                      SumSeq([t \in 1..T |-> spikes[t][k]])]
    IN  [s1 \in 1..Pow(2, nchannels) |->
            ProdSeq([k \in 1..nchannels |->
                        IF ReprBit(s1 - 1, k, nchannels) = 1
                        THEN colsum[k]
                        ELSE T * Unit - colsum[k]])]

IndepDen(spikes) == Pow(Len(spikes) * Unit, Len(spikes[1]))

\* l = npoints/d is the integer division of Python 2
spikes2indep_dict(spikes, npoints, fractions) ==
    LET indep == IndepNum(spikes)
        den == IndepDen(spikes)
        distr == [d \in fractions |->
                    [i \in 1..d |->
                        [s \in DOMAIN indep |-> indep[s] * (npoints \div d)]]]
    IN  [status |-> check_dict_consistency(distr, den, npoints),
         distr |-> distr, den |-> den]

(* ====================== TransitionModelBuilder ======================== *)

\* histogram2d(y[:-dt], y[dt:], bins=range(nstates+1))
transition_matrix(y, nstates, dt) ==
    LET n  == IF Len(y) > dt THEN Len(y) - dt ELSE 0
        xs == Slice(y, 0, n)
        ys == Slice(y, dt, Len(y))
    IN  [a \in 1..nstates |-> [b \in 1..nstates |->
            Cardinality({t \in 1..n :
                InBin(xs[t], a, nstates) /\ InBin(ys[t], b, nstates)})]]

\* every block is a matrix num[a][b]/den
states2transition_dict(states, nchannels, dt, ds, indep) ==
    LET npoints == Len(states)
        nstates == Pow(2, nchannels)
    IN  [d \in ds |->
            [i \in 1..d |->
                LET part_y == Slice(states, (i - 1) * (npoints \div d),
                                    i * (npoints \div d))
                    marg == states2distr(part_y, nchannels, TRUE)
                IN  IF ~ indep
                    THEN [num |-> transition_matrix(part_y, nstates, dt),
                          den |-> 1]
                    ELSE [num |-> [a \in 1..nstates |-> [b \in 1..nstates |->
                                     marg.num[a] * marg.num[b]
                                         * (Len(part_y) - 1)]],
                          den |-> marg.den * marg.den]]]

(* ================= BayesianEstimator, ExtrapolationEngine ============= *)

\* p + alpha
AddAlpha(p, alpha) == [x \in DOMAIN p |-> p[x] + alpha]

\* The digamma expressions are kept as terms over their arguments.
mean_H_estimate(alpha) == [fn |-> "mean_H_estimate", alpha |-> alpha]

mean_KL_estimate(alpha, beta) ==
    [fn |-> "mean_KL_estimate", H |-> mean_H_estimate(alpha),
     alpha |-> alpha, beta |-> beta]

\* ns = array([4,2,1])
ns == <<4, 2, 1>>

\* a faulty variant: a missing key is skipped (p_dict.get) and the present ones are fitted
h_estimation_skip(p_dict, npoints, alpha) ==
    LET have == SelectSeq(ns, LAMBDA d : d \in DOMAIN p_dict)
    IN  [status |-> "ok",
         Ns |-> [j \in DOMAIN have |-> npoints \div have[j]],
         h_estimate |-> [j \in DOMAIN have |->
                            [i \in 1..have[j] |->
                                mean_H_estimate(AddAlpha(p_dict[have[j]][i], alpha))]]]

\* p_dict[d] of a missing key d raises KeyError.  The value returned is the
\* leading coefficient of polyfit(Ns, Ns*Ns*h_estimate, 2); the model returns
\* the points (Ns[j], h_estimate[j]) the fit is computed from.
h_estimation(p_dict, npoints, alpha) ==
    LET missing == {j \in DOMAIN ns : ns[j] \notin DOMAIN p_dict}
    IN  IF missing # {}
        THEN [status |-> "KeyError", key |-> ns[MinOf(missing)]]
        ELSE [status |-> "ok",
              Ns |-> [j \in DOMAIN ns |-> npoints \div ns[j]],
              h_estimate |-> [j \in DOMAIN ns |->
                                 [i \in 1..ns[j] |->
                                     mean_H_estimate(AddAlpha(p_dict[ns[j]][i], alpha))]]]

kl_estimation(p_dict, q_dict, npoints, alpha) ==
    LET missing == {j \in DOMAIN ns :
                       ns[j] \notin DOMAIN p_dict \/ ns[j] \notin DOMAIN q_dict}
    IN  IF missing # {}
        THEN [status |-> "KeyError", key |-> ns[MinOf(missing)]]
        ELSE [status |-> "ok",
              Ns |-> [j \in DOMAIN ns |-> npoints \div ns[j]],
              h_estimate |-> [j \in DOMAIN ns |->
                                 [i \in 1..ns[j] |->
                                     mean_H_estimate(AddAlpha(p_dict[ns[j]][i], alpha))]],
              kl_estimate |-> [j \in DOMAIN ns |->
                                  [i \in 1..ns[j] |->
                                      mean_KL_estimate(AddAlpha(p_dict[ns[j]][i], alpha),
                                                       AddAlpha(q_dict[ns[j]][i], alpha))]]]

(* ======================= the calls and their inputs =================== *)

Pending == [status |-> "pending"]

Returned == ret.status # "pending"

\* the block counts a caller asks for: the subsets of the default [1,2,4]
Fractions == SUBSET {1, 2, 4}

StateSeqs(nchannels, maxlen) == SeqsUpTo(0..(Pow(2, nchannels) - 1), maxlen)

\* a partition with the keys K, as states2dict builds it before its check
PartitionOf(y, K) == states2dict(y, 1, Len(y), K).distr

Reverse(y) == [i \in DOMAIN y |-> y[Len(y) + 1 - i]]

InitDirect ==
    /\ ret = Pending
    /\ \/ \E p \in SeqsUpTo(ProbVals, MaxBins) :
             call = [op |-> "entropy", p |-> p]
       \/ \E n \in 1..MaxKlBins : \E p \in [1..n -> ProbVals] :
             \E q \in [1..n -> ProbVals] :
                call = [op |-> "kl", p |-> p, q |-> q]

InitEncoder ==
    /\ ret = Pending
    /\ \E spikes \in Matrices(BinaryVals, MaxPoints)
                        \cup Matrices(SpikeVals, MaxRows) :
          call = [op |-> "spikes2states", spikes |-> spikes]

\* a sequence may hold values that are no state of nchannels channels
InitHistogram ==
    /\ ret = Pending
    /\ \E states \in SeqsUpTo(-1..Pow(2, MaxChannels), MaxLen) :
          \E nchannels \in 1..MaxChannels : \E normed \in BOOLEAN :
             call = [op |-> "states2distr", states |-> states,
                     nchannels |-> nchannels, normed |-> normed]

InitPartition ==
    /\ ret = Pending
    /\ \E nchannels \in 1..MaxChannels :
          \E all_y \in StateSeqs(nchannels, MaxPoints) :
             \E npoints \in 1..MaxPoints : \E fractions \in Fractions :
                \E shuffle \in BOOLEAN :
                   call = [op |-> "states2dict", all_y |-> all_y,
                           nchannels |-> nchannels, npoints |-> npoints,
                           fractions |-> fractions, shuffle |-> shuffle]

InitIndep ==
    /\ ret = Pending
    /\ \E spikes \in Matrices(BinaryVals, MaxPoints) :
          \E npoints \in 1..MaxPoints : \E fractions \in Fractions :
             call = [op |-> "spikes2indep_dict", spikes |-> spikes,
                     nchannels |-> Len(spikes[1]), npoints |-> npoints,
                     fractions |-> fractions]

InitTransition ==
    /\ ret = Pending
    /\ \E nchannels \in 1..MaxChannels :
          \E states \in StateSeqs(nchannels, MaxPoints) :
             \E dt \in 1..MaxLag : \E ds \in Fractions : \E indep \in BOOLEAN :
                call = [op |-> "states2transition_dict", states |-> states,
                        nchannels |-> nchannels, dt |-> dt, ds |-> ds,
                        indep |-> indep]

InitExtrapolation ==
    /\ ret = Pending
    /\ \E y \in StateSeqs(1, MaxPoints) : \E K \in Fractions :
          \/ call = [op |-> "h_estimation", p_dict |-> PartitionOf(y, K),
                     npoints |-> Len(y), alpha |-> 1]
          \/ \E Kq \in Fractions :
                call = [op |-> "kl_estimation", p_dict |-> PartitionOf(y, K),
                        q_dict |-> PartitionOf(Reverse(y), Kq),
                        npoints |-> Len(y), alpha |-> 1]

CallEntropy ==
    /\ call.op = "entropy" /\ ~ Returned
    /\ ret' = entropy(call.p)
    /\ UNCHANGED call

CallKl ==
    /\ call.op = "kl" /\ ~ Returned
    /\ ret' = kl(call.p, call.q)
    /\ UNCHANGED call

CallSpikes2states ==
    /\ call.op = "spikes2states" /\ ~ Returned
    /\ ret' = spikes2states(call.spikes)
    /\ UNCHANGED call

CallStates2distr ==
    /\ call.op = "states2distr" /\ ~ Returned
    /\ ret' = [status |-> "ok",
               distr |-> states2distr(call.states, call.nchannels, call.normed)]
    /\ UNCHANGED call

CallStates2dict ==
    /\ call.op = "states2dict" /\ ~ Returned
    /\ \E y \in (IF call.shuffle THEN Shuffles(call.all_y) ELSE {call.all_y}) :
          ret' = states2dict(y, call.nchannels, call.npoints, call.fractions)
    /\ UNCHANGED call

CallSpikes2indepDict ==
    /\ call.op = "spikes2indep_dict" /\ ~ Returned
    /\ ret' = spikes2indep_dict(call.spikes, call.npoints, call.fractions)
    /\ UNCHANGED call

CallStates2transitionDict ==
    /\ call.op = "states2transition_dict" /\ ~ Returned
    /\ ret' = [status |-> "ok",
               distr |-> states2transition_dict(call.states, call.nchannels,
                                                call.dt, call.ds, call.indep)]
    /\ UNCHANGED call

CallHEstimation ==
    /\ call.op = "h_estimation" /\ ~ Returned
    /\ ret' = h_estimation(call.p_dict, call.npoints, call.alpha)
    /\ UNCHANGED call

CallKlEstimation ==
    /\ call.op = "kl_estimation" /\ ~ Returned
    /\ ret' = kl_estimation(call.p_dict, call.q_dict, call.npoints, call.alpha)
    /\ UNCHANGED call

NextDirect == CallEntropy \/ CallKl

NextExtrapolation == CallHEstimation \/ CallKlEstimation

SpecDirect == InitDirect /\ [][NextDirect]_vars

SpecEncoder == InitEncoder /\ [][CallSpikes2states]_vars

SpecHistogram == InitHistogram /\ [][CallStates2distr]_vars

SpecPartition == InitPartition /\ [][CallStates2dict]_vars

SpecIndep == InitIndep /\ [][CallSpikes2indepDict]_vars

SpecTransition == InitTransition /\ [][CallStates2transitionDict]_vars

SpecExtrapolation == InitExtrapolation /\ [][NextExtrapolation]_vars

Init ==
    \/ InitDirect \/ InitEncoder \/ InitHistogram \/ InitPartition
    \/ InitIndep \/ InitTransition \/ InitExtrapolation

Next ==
    \/ CallEntropy \/ CallKl \/ CallSpikes2states \/ CallStates2distr
    \/ CallStates2dict \/ CallSpikes2indepDict \/ CallStates2transitionDict
    \/ CallHEstimation \/ CallKlEstimation

Spec == Init /\ [][Next]_vars

(* ============================== claims ================================ *)

Called(op) == call.op = op /\ Returned

\* the blocks of d2 that tile block j of d1, summed in bin s
TileSum(distr, d1, d2, j, s) ==
    SumSeq([i \in 1..(d2 \div d1) |->
               distr[d2][(j - 1) * (d2 \div d1) + i][s]])

\* the consistency invariant of a partition of counts fails for some d1 < d2
ConsistencyViolated(distr) ==
    \E d1 \in DOMAIN distr : \E d2 \in DOMAIN distr :
        /\ d1 < d2
        /\ \E j \in 1..d1 : \E s \in DOMAIN distr[d1][j] :
              TileSum(distr, d1, d2, j, s) # distr[d1][j][s]

\* C1: whenever the partition states2dict has built violates the consistency
\* invariant for some pair of keys d1 < d2, the call raises the assertion
\* error of the consistency check instead of returning.
C1_InconsistentPartitionRaises ==
    (Called("states2dict") /\ ConsistencyViolated(ret.distr))
        => ret.status = "AssertionError"

\* the number of observations counted in the blocks of key d
TotalCount(distr, d) == SumSeq(BlockSum(distr[d]))

\* C2: a partition returned for a sequence of length npoints has, under every
\* key d, exactly d blocks whose counts add up to npoints.
C2_BlocksCoverAllPoints ==
    (Called("states2dict") /\ ret.status = "ok"
        /\ Len(call.all_y) = call.npoints)
        => \A d \in call.fractions :
              /\ Len(ret.distr[d]) = d
              /\ TotalCount(ret.distr, d) = call.npoints

IsBinary(spikes) ==
    \A t \in DOMAIN spikes : \A k \in DOMAIN spikes[t] :
        spikes[t][k] \in BinaryVals

\* C3: on binary rows spikes2states returns the integer in 0 .. 2^C - 1 whose
\* bit C-1-k is the value of channel k (channel 0 most significant); decoding
\* the code bit by bit gives the row back and distinct rows get distinct codes.
C3_EncodeIsBijection ==
    (Called("spikes2states") /\ IsBinary(call.spikes))
        => /\ ret.status = "ok"
           /\ \A t \in DOMAIN call.spikes :
                 LET row == call.spikes[t]
                     C == Len(row)
                     code == ret.value[t] \div ret.den
                 IN  /\ ret.value[t] % ret.den = 0
                     /\ code \in 0..(Pow(2, C) - 1)
                     /\ code = SumSeq([k \in 1..C |->
                                         (row[k] \div Unit) * Pow(2, C - k)])
                     /\ \A k \in 1..C :
                           (code \div Pow(2, C - k)) % 2 = row[k] \div Unit
           /\ \A t1 \in DOMAIN call.spikes : \A t2 \in DOMAIN call.spikes :
                 call.spikes[t1] # call.spikes[t2]
                     => ret.value[t1] # ret.value[t2]

\* the rows [1,0] and [0,1] of two channels have been encoded as 2 and 1
C3_Witness ==
    /\ Called("spikes2states") /\ IsBinary(call.spikes)
    /\ Len(call.spikes) >= 2
    /\ call.spikes[1] = <<Unit, 0>> /\ call.spikes[2] = <<0, Unit>>
    /\ ret.status = "ok"
    /\ ret.value[1] = 2 * ret.den /\ ret.value[2] = ret.den

Occurrences(states, s) == Cardinality({t \in DOMAIN states : states[t] = s})

CountsAreHistogram(states, nchannels, distr) ==
    /\ distr.den = 1
    /\ Len(distr.num) = Pow(2, nchannels)
    /\ \A s1 \in DOMAIN distr.num :
          distr.num[s1] >= 0 /\ distr.num[s1] = Occurrences(states, s1 - 1)
    /\ SumSeq(distr.num) = Len(states)

\* C4 as stated: for any sequence and any nchannels the unnormalised histogram
\* has 2^nchannels non-negative entries that sum to the length of the
\* sequence, entry s being the number of occurrences of s.
C4_HistogramOfAnySequence ==
    (Called("states2distr") /\ ~ call.normed)
        => CountsAreHistogram(call.states, call.nchannels, ret.distr)

AllStatesInRange(states, nchannels) ==
    \A t \in DOMAIN states : states[t] \in 0..(Pow(2, nchannels) - 1)

\* C4: for a sequence whose elements are all states of nchannels channels
\* (in 0 .. 2^nchannels - 1) the unnormalised histogram has 2^nchannels
\* non-negative entries that sum to the length of the sequence, entry s being
\* the number of occurrences of s.
C4_HistogramOfStates ==
    (Called("states2distr") /\ ~ call.normed
        /\ AllStatesInRange(call.states, call.nchannels))
        => CountsAreHistogram(call.states, call.nchannels, ret.distr)

\* three states of two channels, one of them twice, have been counted
C4_Witness ==
    /\ Called("states2distr") /\ ~ call.normed
    /\ call.nchannels = 2 /\ call.states = <<3, 0, 3>>
    /\ ret.distr.num = <<1, 0, 0, 2>>

\* p is the uniform distribution over 2^C states
IsUniform(p, C) ==
    Len(p) = Pow(2, C) /\ \A x \in DOMAIN p : p[x] * Pow(2, C) = Den

\* C5 as stated: on the uniform distribution over 2^C states entropy
\* returns +C bits.
C5_UniformEntropyIsPlusC ==
    Called("entropy")
        => \A C \in 1..MaxExp :
              IsUniform(call.p, C)
                  => ret.status = "ok" /\ ret.num = C * ret.den

\* C5: entropy returns sum p log2 p, without the minus sign: on the uniform
\* distribution over 2^C states it returns -C bits, and on no distribution
\* of probabilities does it return a positive value.
C5_UniformEntropyIsMinusC ==
    Called("entropy")
        => /\ \A C \in 1..MaxExp :
                 IsUniform(call.p, C)
                     => ret.status = "ok" /\ ret.num = (0 - C) * ret.den
           /\ ret.status = "ok" => ret.num <= 0

\* entropy([0.25,0.25,0.25,0.25]) has returned -2
C5_Witness ==
    /\ Called("entropy") /\ IsUniform(call.p, 2)
    /\ ret.status = "ok" /\ ret.num = (0 - 2) * ret.den

HasZero(p) == \E x \in DOMAIN p : p[x] = 0

\* C6: entropy raises the zero-bin exception exactly when an entry of p is 0,
\* kl exactly when an entry of p or of q is 0; a numeric result is returned
\* only when no entry is 0.
C6_ZeroBinsRejected ==
    /\ Called("entropy")
          => /\ HasZero(call.p) <=> ret = ZeroBins
             /\ ~ HasZero(call.p) <=> ret.status = "ok"
    /\ Called("kl")
          => /\ (HasZero(call.p) \/ HasZero(call.q)) <=> ret = ZeroBins
             /\ ~ (HasZero(call.p) \/ HasZero(call.q)) <=> ret.status = "ok"

\* kl has rejected a q with a zero bin although p has none
C6_Witness ==
    /\ Called("kl") /\ ~ HasZero(call.p) /\ HasZero(call.q)
    /\ ret = ZeroBins

AllKeys(dict) == {1, 2, 4} \subseteq DOMAIN dict

\* C7: h_estimation and kl_estimation fail (with the KeyError of the missing
\* key) whenever a partition handed to them lacks one of the keys 1, 2, 4, and
\* a value they return is fitted to three points, one per key.
C7_MissingKeyFails ==
    /\ Called("h_estimation")
          => /\ ~ AllKeys(call.p_dict) => ret.status = "KeyError"
             /\ ret.status = "ok"
                   => /\ AllKeys(call.p_dict)
                      /\ Len(ret.Ns) = 3 /\ Len(ret.h_estimate) = 3
    /\ Called("kl_estimation")
          => /\ ~ (AllKeys(call.p_dict) /\ AllKeys(call.q_dict))
                   => ret.status = "KeyError"
             /\ ret.status = "ok"
                   => /\ AllKeys(call.p_dict) /\ AllKeys(call.q_dict)
                      /\ Len(ret.Ns) = 3 /\ Len(ret.h_estimate) = 3
                      /\ Len(ret.kl_estimate) = 3

\* h_estimation has failed on a partition with the two keys 1 and 4
C7_Witness ==
    /\ Called("h_estimation") /\ DOMAIN call.p_dict = {1, 4}
    /\ ret.status = "KeyError" /\ ret.key = 2

\* C8: spikes2states raises ValueError exactly when some element of the
\* matrix is not 0 or 1.
C8_NonBinaryRejected ==
    Called("spikes2states")
        => (~ IsBinary(call.spikes) <=> ret.status = "ValueError")

\* C9: for the block counts {1,2,4} and a matrix of npoints rows,
\* spikes2indep_dict returns, and under every key d the d blocks are all the
\* independence vector scaled by npoints/d, so that their sum is the block of
\* d = 1 and totals npoints.
C9_IndepPartitionConsistent ==
    (Called("spikes2indep_dict") /\ call.fractions = {1, 2, 4}
        /\ call.npoints = Len(call.spikes))
        => /\ ret.status = "ok"
           /\ \A d \in call.fractions :
                 /\ Len(ret.distr[d]) = d
                 /\ \A i \in 1..d : \A s \in DOMAIN ret.distr[d][i] :
                       ret.distr[d][i][s] * d
                           = IndepNum(call.spikes)[s] * call.npoints
                 /\ BlockSum(ret.distr[d]) = ret.distr[1][1]
                 /\ TotalCount(ret.distr, d) = call.npoints * ret.den

\* the sum of all entries of a matrix
MatrixTotal(m) == SumSeq([a \in DOMAIN m |-> SumSeq(m[a])])

\* C10: every block of a transition partition, raw or independent in time,
\* has as total count the number of (t, t+lag) pairs of the block,
\* block length - lag, for every lag smaller than the block length.
C10_BlockTotalIsPairCount ==
    Called("states2transition_dict")
        => \A d \in call.ds : \A i \in 1..d :
              LET block_len == Len(call.states) \div d
                  block == ret.distr[d][i]
              IN  call.dt < block_len
                     => /\ block.den > 0
                        /\ MatrixTotal(block.num)
                              = (block_len - call.dt) * block.den

====
